---------------------------- MODULE Spec2Model ----------------------------
(***************************************************************************)
(* A model of handelsregister.py: the command-line driver of the German    *)
(* register portal.  The model covers the entry point (__main__), the      *)
(* cached search (search_company), the company matcher (get_company), the  *)
(* document fetch with its tree expansion (get_documents,                  *)
(* expand_documents_tree) and the retrieval of one document's content      *)
(* (download_pdf, download_pdf_via_rowkey).                                *)
(*                                                                         *)
(* Text is modelled as a sequence of symbols.  A symbol stands for one     *)
(* character (" ", "1", "B", the carriage return "CR", the line feed "LF") *)
(* or for a run of word characters that the program never splits ("HRB",  *)
(* "Ex", "GmbH").  Python's None is the value None below.                  *)
(***************************************************************************)
EXTENDS Integers, Sequences, FiniteSets, TLC

None == <<"None">>

\* A key the dict does not hold.
Absent == <<"absent">>

Truthy(x) == x # None /\ x # <<>>

Min(S) == CHOOSE x \in S : \A y \in S : x <= y

(***************************************************************************)
(* Character classes and the string operations the program uses.           *)
(***************************************************************************)
WS == {" ", "CR", "LF"}

Digits == {"1", "2"}

RegTypes == {"HRA", "HRB", "GnR", "VR", "PR"}

UpperLetters == {"B", "H"}

IsWordAt(s, i) == i <= Len(s) /\ s[i] \notin WS

SkipWS(s, i) == Min({n \in i..(Len(s) + 1) : n = Len(s) + 1 \/ s[n] \notin WS})

SkipDigits(s, i) == Min({n \in i..(Len(s) + 1) : n = Len(s) + 1 \/ s[n] \notin Digits})

StartsWith(s, p) == Len(p) <= Len(s) /\ SubSeq(s, 1, Len(p)) = p

EndsWith(s, p) == Len(p) <= Len(s) /\ SubSeq(s, Len(s) - Len(p) + 1, Len(s)) = p

\* p in s
Contains(s, p) == \E i \in 1..(Len(s) - Len(p) + 1) : SubSeq(s, i, i + Len(p) - 1) = p

LowerSym(c) ==
    CASE c = "Ex" -> "ex"
      [] c = "GmbH" -> "gmbh"
      [] c = "Other" -> "other"
      [] OTHER -> c

Lower(s) == [i \in 1..Len(s) |-> LowerSym(s[i])]

Strip(s) ==
    LET keep == {i \in 1..Len(s) : s[i] \notin WS}
    IN IF keep = {} THEN <<>>
       ELSE SubSeq(s, Min(keep), CHOOSE m \in keep : \A k \in keep : k <= m)

NotSpace(c) == c # " "

\* s.replace(' ', '')
RemoveSpaces(s) == SelectSeq(s, NotSpace)

(***************************************************************************)
(* Text-mode file I/O of the cache (open(cachename, "w") / open(.., "r")). *)
(* On write Python turns "\n" into os.linesep, which is "\n" here, so the  *)
(* file holds the text as given.  On read the default universal-newlines   *)
(* mode turns "\r\n" and a lone "\r" into "\n".                            *)
(***************************************************************************)
RECURSIVE TextRead(_)
TextRead(s) ==
    IF s = <<>> THEN <<>>
    ELSE IF s[1] = "CR"
         THEN IF Len(s) >= 2 /\ s[2] = "LF"
              THEN <<"LF">> \o TextRead(SubSeq(s, 3, Len(s)))
              ELSE <<"LF">> \o TextRead(Tail(s))
         ELSE <<s[1]>> \o TextRead(Tail(s))

TextWrite(s) == s


(***************************************************************************)
(* The result extractor: parse_result and get_companies_in_searchresults.  *)
(* A results page is [grid, rows]: whether a <table role="grid"> exists,   *)
(* and its <tr> rows.  A row is [ri, cells, dk]: whether it carries the    *)
(* data-ri attribute, the texts of its <td> cells as the markup holds them *)
(* and the id of the link around the "DK" span of cell 5 (None without     *)
(* one).  cells[2] is Python's cells[1].                                   *)
(***************************************************************************)

\* re.search(r'(HRA|HRB|GnR|VR|PR)\s*\d+(\s+[A-Z])?(?!\w)', court) tried at
\* position i: the index of the match's last symbol, 0 without a match.
RegisterMatchEnd(s, i) ==
    IF i > Len(s) \/ s[i] \notin RegTypes THEN 0
    ELSE LET j == SkipWS(s, i + 1)
             k == SkipDigits(s, j)
             u == SkipWS(s, k)
         IN IF k = j THEN 0
            ELSE IF u > k /\ u <= Len(s) /\ s[u] \in UpperLetters /\ ~IsWordAt(s, u + 1)
                 THEN u
                 ELSE IF ~IsWordAt(s, k) THEN k - 1 ELSE 0

RegisterNumOf(court) ==
    LET starts == {i \in 1..Len(court) : RegisterMatchEnd(court, i) > 0}
    IN IF starts = {} THEN None
       ELSE SubSeq(court, Min(starts), RegisterMatchEnd(court, Min(starts)))

\* register_num.split()[0]
FirstToken(s) ==
    LET t == Strip(s) IN SubSeq(t, 1, Min({n \in 1..(Len(t) + 1) : n = Len(t) + 1 \/ t[n] \in WS}) - 1)

\* suffix_map.get(state, {}).get(reg_type)
suffix_map(state, reg_type) ==
    IF state = <<"Berlin">> /\ reg_type = <<"HRB">> THEN <<" ", "B">>
    ELSE IF state = <<"Bremen">> /\ Len(reg_type) = 1 /\ reg_type[1] \in RegTypes
         THEN <<" ", "H", "B">>
         ELSE None

\* The rule without the endswith test of line 771.
NormalizeSuffixAlways(state, register_num) ==
    LET suffix == suffix_map(state, FirstToken(register_num))
    IN IF suffix # None THEN register_num \o suffix ELSE register_num

\* Lines 764-772 for a register number that is not None.
NormalizeSuffix(state, register_num) ==
    LET suffix == suffix_map(state, FirstToken(register_num))
    IN IF suffix # None /\ ~EndsWith(register_num, suffix)
       THEN register_num \o suffix
       ELSE register_num

MinCells == 5

\* cells[4] is read without a length check: a shorter row raises IndexError.
ParseResultRaises(result) == Len(result.cells) < MinCells

parse_result(result) ==
    LET cells == [i \in 1..Len(result.cells) |-> Strip(result.cells[i])]
        reg == RegisterNumOf(cells[2])
    IN [court |-> cells[2],
        register_num |-> IF reg # None THEN NormalizeSuffix(cells[4], reg) ELSE None,
        name |-> cells[3],
        state |-> cells[4],
        status |-> cells[5],
        dk_id |-> IF Len(result.cells) > 5 THEN result.dk ELSE None,
        documents |-> <<>>,
        documentShareholdersLatest |-> Absent]

\* The outcome of a call: exc is "none" when it returned, value what it returned.
Returned(v) == [exc |-> "none", value |-> v]

Raised(e) == [exc |-> e, value |-> <<>>]

\* The loop of lines 819-825 without the test of data-ri: a record for
\* every row, an empty one for a row without cells.
RECURSIVE ParseEveryRow(_)
ParseEveryRow(rows) ==
    IF rows = <<>> THEN <<>>
    ELSE <<IF rows[1].ri THEN parse_result(rows[1]) ELSE [court |-> None]>>
         \o ParseEveryRow(Tail(rows))

RECURSIVE ParseRows(_)
ParseRows(rows) ==
    IF rows = <<>> THEN <<>>
    ELSE IF rows[1].ri THEN <<parse_result(rows[1])>> \o ParseRows(Tail(rows))
         ELSE ParseRows(Tail(rows))

get_companies_in_searchresults(html) ==
    IF ~html.grid THEN Raised("AttributeError")
    ELSE IF \E i \in 1..Len(html.rows) : html.rows[i].ri /\ ParseResultRaises(html.rows[i])
         THEN Raised("IndexError")
         ELSE Returned(ParseRows(html.rows))

\* What f.read() returns for a cached page: every text of the markup goes
\* through the newline translation of text mode.
ReadPage(html) ==
    [grid |-> html.grid,
     rows |-> [i \in 1..Len(html.rows) |->
                 [ri |-> html.rows[i].ri,
                  cells |-> [j \in 1..Len(html.rows[i].cells) |-> TextRead(html.rows[i].cells[j])],
                  dk |-> html.rows[i].dk]]]

WritePage(html) ==
    [grid |-> html.grid,
     rows |-> [i \in 1..Len(html.rows) |->
                 [ri |-> html.rows[i].ri,
                  cells |-> [j \in 1..Len(html.rows[i].cells) |-> TextWrite(html.rows[i].cells[j])],
                  dk |-> html.rows[i].dk]]]

(***************************************************************************)
(* The company matcher: the part of get_company that follows the search.   *)
(***************************************************************************)
NoneCompany ==
    [court |-> None, register_num |-> None, name |-> None, state |-> None,
     status |-> None, dk_id |-> None, documents |-> <<>>,
     documentShareholdersLatest |-> Absent]

LegalForms == {"GmbH", "gmbh"}

\* re.sub(r'\s+(GmbH|AG|...)\s*', ' ', company_name, flags=re.IGNORECASE)
RECURSIVE StripLegalForms(_)
StripLegalForms(s) ==
    IF s = <<>> THEN <<>>
    ELSE LET j == SkipWS(s, 1)
         IN IF j > 1 /\ j <= Len(s) /\ s[j] \in LegalForms
            THEN <<" ">> \o StripLegalForms(SubSeq(s, SkipWS(s, j + 1), Len(s)))
            ELSE <<s[1]>> \o StripLegalForms(Tail(s))

\* words[0] if words else company_name, or register_num without a company name
SearchTerm(register_num, company_name) ==
    IF Truthy(company_name)
    THEN LET clean_name == Strip(StripLegalForms(company_name))
         IN IF clean_name = <<>> THEN company_name ELSE FirstToken(clean_name)
    ELSE register_num

NameFilter(companies, company_name) ==
    LET IsExact(c) == c.name = company_name
        IsSameLower(c) == Lower(c.name) = Lower(company_name)
        HasSubstring(c) == Contains(Lower(c.name), Lower(company_name))
        exact == SelectSeq(companies, IsExact)
        lower == SelectSeq(companies, IsSameLower)
        substring == SelectSeq(companies, HasSubstring)
        name_filtered == IF exact # <<>> THEN exact
                         ELSE IF lower # <<>> THEN lower ELSE substring
    IN IF ~Truthy(company_name) THEN companies
       ELSE IF name_filtered # <<>> THEN name_filtered ELSE companies

\* One company of the loop over the candidates: exact, then without spaces,
\* then prefix.
RegisterMatches(c_reg, register_num) ==
    \/ c_reg = register_num
    \/ RemoveSpaces(c_reg) = RemoveSpaces(register_num)
    \/ StartsWith(c_reg, register_num)

\* c.get('register_num', '') is None for a company whose court text held no
\* register number (the key exists), and None.replace raises AttributeError.
RegisterFilterRaises(companies, register_num) ==
    \E i \in 1..Len(companies) : companies[i].register_num = None

\* The loop of lines 652-663 with no test: every company is kept.
RegisterFilterAll(companies, register_num) == companies

RegisterFilter(companies, register_num) ==
    LET Matches(c) == RegisterMatches(c.register_num, register_num)
    IN SelectSeq(companies, Matches)

NameSimilar(c_name, company_name) ==
    LET clean_name == Strip(Lower(company_name))
        name == Strip(Lower(c_name))
    IN Contains(name, clean_name) \/ Contains(clean_name, name)

\* The selection without the name disambiguation of lines 674-681.
SelectFirst(matches_by_register, company_name) ==
    IF matches_by_register = <<>> THEN NoneCompany ELSE matches_by_register[1]

SelectTarget(matches_by_register, company_name) ==
    IF matches_by_register = <<>> THEN NoneCompany
    ELSE IF Truthy(company_name) /\ Len(matches_by_register) > 1
         THEN LET hits == {i \in 1..Len(matches_by_register) :
                              NameSimilar(matches_by_register[i].name, company_name)}
              IN IF hits # {} THEN matches_by_register[Min(hits)]
                 ELSE matches_by_register[1]
         ELSE matches_by_register[1]

\* Lines 621-694 of get_company on the companies the search returned.
MatchCompany(companies, register_num, company_name) ==
    LET narrowed == NameFilter(companies, company_name)
    IN IF RegisterFilterRaises(narrowed, register_num) THEN Raised("AttributeError")
       ELSE Returned(SelectTarget(RegisterFilter(narrowed, register_num), company_name))

(***************************************************************************)
(* The browser (mechanize.Browser) as the program uses it: the page it is  *)
(* on and its history.  open and submit push the current page (there is    *)
(* none before the first open) and then fetch, also when the fetch fails;  *)
(* back pops, skipping entries that hold no response.                      *)
(***************************************************************************)
NoBrowser == [cur |-> "absent", hist |-> <<>>]

NewBrowser == [cur |-> "unopened", hist |-> <<>>]

Open(b, page) ==
    [cur |-> page,
     hist |-> IF b.cur = "unopened" THEN b.hist ELSE Append(b.hist, b.cur)]

BackRaises(b) == \A i \in 1..Len(b.hist) : b.hist[i] = "failed"

Back(b) ==
    LET live == {i \in 1..Len(b.hist) : b.hist[i] # "failed"}
        top == CHOOSE m \in live : \A k \in live : k <= m
    IN [cur |-> b.hist[top], hist |-> SubSeq(b.hist, 1, top - 1)]

\* select_form(name=...) finds the form on the current page.
HasForm(b, name) ==
    \/ name = "naviForm" /\ b.cur = "Start"
    \/ name = "form" /\ b.cur = "ExtSearch"
    \/ name = "ergebnissForm" /\ b.cur = "Results"
    \/ name = "dk_form" /\ b.cur = "Docs"

(***************************************************************************)
(* search_company.  The cache directory is a function from file names to   *)
(* the pages stored under them.                                            *)
(***************************************************************************)
schlagwortOptionen(option) ==
    CASE option = "all" -> 1
      [] option = "min" -> 2
      [] option = "exact" -> 3

companyname2cachename(companyname) == companyname

\* re.search(r'(HRA|HRB|GnR|VR|PR)\s*(\d+)', register_number)
ArgRegisterMatch(s) ==
    LET starts == {i \in 1..Len(s) :
                     /\ s[i] \in RegTypes
                     /\ SkipDigits(s, SkipWS(s, i + 1)) > SkipWS(s, i + 1)}
        i0 == Min(starts)
        j0 == SkipWS(s, i0 + 1)
    IN IF starts = {} THEN [found |-> FALSE, reg_type |-> None, reg_num |-> None]
       ELSE [found |-> TRUE, reg_type |-> <<s[i0]>>,
             reg_num |-> SubSeq(s, j0, SkipDigits(s, j0) - 1)]

\* The cache check with the flag read the wrong way round.
UseCacheWhenForced(force, exists) == force /\ exists

\* force == False and cachename.exists()
UseCache(force, exists) == ~force /\ exists

\* Lines 88-108: the fields of the extended-search form as submitted.
\* setfail names the assignment of the try block that raises (0: none);
\* a field the program did not set is None.
SearchForm(a, setfail) ==
    LET m == ArgRegisterMatch(IF Truthy(a.register_number) THEN a.register_number ELSE <<>>)
        tried == m.found
        reg_parsed == tried /\ setfail = 0
    IN [kind |-> "search",
        registerArt |-> IF tried /\ setfail # 1 THEN m.reg_type ELSE None,
        registerNummer |-> IF tried /\ setfail = 0 THEN m.reg_num ELSE None,
        schlagwoerter |-> IF reg_parsed THEN <<>> ELSE a.schlagwoerter,
        schlagwortOptionen |-> schlagwortOptionen(a.schlagwortOptionen)]

\* The html parsed, then the companies: the tail of search_company.
SearchResult(hit, html, c, b, reqs) ==
    LET got == get_companies_in_searchresults(html)
    IN [exc |-> got.exc, companies |-> got.value, cache |-> c, browser |-> b,
        reqs |-> reqs, hit |-> hit, html |-> html]

SearchRaised(e, c, b, reqs) ==
    [exc |-> e, companies |-> <<>>, cache |-> c, browser |-> b,
     reqs |-> reqs, hit |-> FALSE, html |-> None]

\* Every outcome of one call of search_company with arguments a, cache
\* directory c and browser b, the remote system answering with one of pages.
search_company(a, c, b, pages) ==
    LET cachename == companyname2cachename(a.schlagwoerter)
        nav == [kind |-> "erweiterteSuche"]
    IN IF a.schlagwoerter = None THEN {SearchRaised("TypeError", c, b, <<>>)}
       ELSE IF UseCache(a.force, cachename = <<>> \/ cachename \in DOMAIN c)
       THEN IF cachename = <<>> THEN {SearchRaised("IsADirectoryError", c, b, <<>>)}
            ELSE {SearchResult(TRUE, ReadPage(c[cachename]), c, b, <<>>)}
       ELSE IF ~HasForm(b, "naviForm") THEN {SearchRaised("FormNotFoundError", c, b, <<>>)}
       ELSE {SearchRaised("URLError", c, Open(b, "failed"), <<nav>>),
             SearchRaised("FormNotFoundError", c, Open(b, "Other"), <<nav>>)}
            \cup
            UNION {
              LET b1 == Open(b, "ExtSearch")
                  form == SearchForm(a, setfail)
              IN {SearchRaised("URLError", c, Open(b1, "failed"), <<nav, form>>)}
                 \cup
                 {IF cachename = <<>>
                  THEN SearchRaised("IsADirectoryError", c, Open(b1, "Results"), <<nav, form>>)
                  ELSE SearchResult(FALSE, html, (cachename :> WritePage(html)) @@ c,
                                    Open(b1, "Results"), <<nav, form>>)
                  : html \in pages}
              : setfail \in IF Truthy(a.register_number)
                               /\ ArgRegisterMatch(a.register_number).found
                            THEN {0, 1, 2} ELSE {0}}

(***************************************************************************)
(* The inputs of the model: command lines, and what the remote system and  *)
(* the cache directory may hold.                                           *)
(***************************************************************************)
Row(court, name, state, dk) ==
    [ri |-> TRUE, cells |-> <<<<>>, court, name, state, <<"aktuell">>, <<"DK">>>>, dk |-> dk]

CourtHRB1 == <<"Amtsgericht", " ", "Frankfurt", " ", "HRB", " ", "1">>

RowEx == Row(CourtHRB1, <<"Ex", " ", "GmbH">>, <<"Hessen">>, <<"dk0">>)

RowOther == Row(CourtHRB1, <<"Other", " ", "GmbH">>, <<"Hessen">>, None)

RowCR == Row(<<"Amtsgericht", "CR", "LF", "Frankfurt", " ", "HRB", " ", "1">>,
             <<"Ex", " ", "GmbH">>, <<"Hessen">>, None)

RowNoReg == Row(<<"Amtsgericht", " ", "Frankfurt">>, <<"Ex", " ", "GmbH">>, <<"Hessen">>, None)

RowShort == [ri |-> TRUE, cells |-> <<<<>>, CourtHRB1, <<"Ex">>>>, dk |-> None]

RowHeader == [ri |-> FALSE, cells |-> <<>>, dk |-> None]

\* The pages the remote system answers a search with.
SearchPages ==
    {[grid |-> FALSE, rows |-> <<>>],
     [grid |-> TRUE, rows |-> <<RowHeader>>],
     [grid |-> TRUE, rows |-> <<RowHeader, RowEx>>],
     [grid |-> TRUE, rows |-> <<RowOther, RowEx>>],
     [grid |-> TRUE, rows |-> <<RowCR>>],
     [grid |-> TRUE, rows |-> <<RowNoReg>>],
     [grid |-> TRUE, rows |-> <<RowShort>>]}

\* What parse_args can return (debug and json only change what is printed).
ArgsPool ==
    [schlagwoerter : {None, <<>>, <<"Ex">>},
     register_number : {None, <<"HRB", " ", "1">>, <<"1", "2">>},
     company_name : {None, <<"Ex", " ", "GmbH">>},
     force : BOOLEAN,
     withShareholdersLatest : BOOLEAN,
     schlagwortOptionen : {"all", "exact"}]

\* The cache directory as earlier runs left it: empty, or one page stored.
InitCaches ==
    {<<>>} \cup {(<<"Ex">> :> html) : html \in SearchPages}

NoSearch ==
    [exc |-> "none", companies |-> <<>>, cache |-> <<>>, browser |-> NoBrowser,
     reqs |-> <<>>, hit |-> FALSE, html |-> None,
     called |-> FALSE, by |-> "none", args |-> None, before |-> <<>>]

VARIABLES
    pc,                 \* where the run is
    entry,              \* "cli": __main__; "api": a caller of the class
    args,               \* self.args
    cache,              \* the files of self.cachedir
    browser,            \* self.browser
    net,                \* the requests sent to the remote system, in order
    search,             \* the last call of search_company and its outcome
    query,              \* get_company's parameters register_num, company_name
    companies,          \* get_company's companies
    target_company,     \* get_company's target_company
    exc,                \* the exception that ended the run, "none" without
    docs,               \* get_documents' docs
    current_viewstate,  \* get_documents' current_viewstate
    nodes_to_expand,    \* get_documents' nodes_to_expand, the part not yet expanded
    fetch               \* bookkeeping of the document fetch in progress

vars == <<pc, entry, args, cache, browser, net, search, query, companies,
          target_company, exc, docs, current_viewstate, nodes_to_expand, fetch>>

docVars == <<docs, current_viewstate, nodes_to_expand, fetch>>

NoViewState == -1

PageToken == 0

\* A request that raises instead of answering.
NoResponse == [ct |-> "URLError", body |-> None]

\* content: the documents page as received; tree: the <li> nodes of the
\* root fragment; response: the last answer to a request for a document's
\* binary content.
NoFetch ==
    [entered |-> FALSE, from |-> "absent", newest |-> PageToken, raising |-> "none",
     latest |-> 0, button |-> None, links |-> <<>>,
     content |-> [text |-> <<>>, nodes |-> <<>>, table |-> <<>>],
     tree |-> <<>>,
     response |-> NoResponse]

NoQuery == [register_num |-> None, company_name |-> None]

InitCommon ==
    /\ browser = NoBrowser
    /\ net = <<>>
    /\ search = NoSearch
    /\ query = NoQuery
    /\ companies = <<>>
    /\ target_company = NoneCompany
    /\ exc = "none"
    /\ docs = <<>>
    /\ current_viewstate = NoViewState
    /\ nodes_to_expand = <<>>
    /\ fetch = NoFetch

Init ==
    /\ entry \in {"cli", "api"}
    /\ pc = IF entry = "cli" THEN "main" ELSE "construct"
    /\ args \in ArgsPool
    /\ cache \in InitCaches
    /\ InitCommon

(***************************************************************************)
(* __main__ up to the search.                                              *)
(***************************************************************************)
\* The usage checks without the second one (lines 908-913).
UsageErrorFirstCheckOnly(a) == ~Truthy(a.schlagwoerter) /\ ~Truthy(a.register_number)

\* Lines 904-913: the two usage checks.
UsageError(a) ==
    \/ ~Truthy(a.schlagwoerter) /\ ~Truthy(a.register_number)
    \/ Truthy(a.register_number) /\ ~Truthy(a.company_name)

MainValidate ==
    /\ pc = "main"
    /\ pc' = IF UsageError(args) THEN "exit1" ELSE "construct"
    /\ UNCHANGED <<entry, args, cache, browser, net, search, query, companies,
                   target_company, exc, docVars>>

\* HandelsRegister(args) and open_startpage(): the first request.
OpenStartpage ==
    /\ pc = "construct"
    /\ net' = Append(net, [kind |-> "startpage"])
    /\ \/ /\ browser' = Open(NewBrowser, "Start")
          /\ pc' = "opened"
          /\ exc' = "none"
       \/ /\ browser' = Open(NewBrowser, "failed")
          /\ pc' = "crashed"
          /\ exc' = "URLError"
    /\ UNCHANGED <<entry, args, cache, search, query, companies, target_company, docVars>>

\* One call of search_company by caller `by`: its effects on the program
\* and the record of the call.
SearchRecord(o, a, by, before) ==
    [o EXCEPT !.cache = <<>>, !.browser = NoBrowser]
        @@ [called |-> TRUE, by |-> by, args |-> a, before |-> before]

CallSearchOn(a, by, pages) ==
    \E o \in search_company(a, cache, browser, pages) :
        /\ search' = SearchRecord(o, a, by, cache)
        /\ cache' = o.cache
        /\ browser' = o.browser
        /\ net' = net \o o.reqs
        /\ companies' = o.companies

CallSearch(a, by) == CallSearchOn(a, by, SearchPages)

\* Lines 929-938, and a direct call of search_company by a user of the
\* class, the remote system answering with one of pages.
MainSearchOn(pages) ==
    /\ pc = "opened"
    /\ entry = "api" \/ ~Truthy(args.register_number)
    /\ CallSearchOn(args, entry, pages)
    /\ pc' = IF search'.exc = "none" THEN "done" ELSE "crashed"
    /\ exc' = search'.exc
    /\ UNCHANGED <<entry, args, query, target_company, docVars>>

MainSearch == MainSearchOn(SearchPages)

\* get_company's args without line 613: the register number stays.
GetCompanyArgsKeepRegister(a, search_term) == [a EXCEPT !.schlagwoerter = search_term]

\* Lines 610-613: self.args as get_company leaves it for search_company.
GetCompanyArgs(a, search_term) ==
    [a EXCEPT !.schlagwoerter = search_term, !.register_number = None]

\* Lines 918-919 and 591-615 of get_company: the search term replaces the
\* keywords and the register number is cleared before search_company runs.
GetCompanySearch ==
    /\ pc = "opened"
    /\ entry = "cli" /\ Truthy(args.register_number)
    /\ query' = [register_num |-> args.register_number, company_name |-> args.company_name]
    /\ args' = GetCompanyArgs(args, SearchTerm(query'.register_num, query'.company_name))
    /\ CallSearch(args', "get_company")
    /\ pc' = IF search'.exc = "none" THEN "gc_match" ELSE "crashed"
    /\ exc' = search'.exc
    /\ UNCHANGED <<entry, target_company, docVars>>

\* Lines 621-696 of get_company: the matcher, and whether documents are fetched.
GetCompanyMatch ==
    /\ pc = "gc_match"
    /\ LET m == MatchCompany(companies, query.register_num, query.company_name)
       IN /\ exc' = m.exc
          /\ target_company' = IF m.exc = "none" THEN m.value ELSE NoneCompany
          /\ pc' = IF m.exc # "none" THEN "crashed"
                   ELSE IF m.value # NoneCompany /\ Truthy(m.value.dk_id) THEN "get_documents"
                   ELSE "done"
    /\ UNCHANGED <<entry, args, cache, browser, net, search, query, companies, docVars>>

(***************************************************************************)
(* The document extractor: parse_documents.  A documents page or fragment  *)
(* is [text, nodes, table]: the words of its running text, where a         *)
(* session-expired marker may stand,                                       *)
(* its text nodes that match the date pattern, in document order, and the  *)
(* rows of its grid tables.  A text node is [date, name, href, aid,        *)
(* rowkey]: the day its date text parses to (0: strptime fails), its       *)
(* stripped text, the href and the id of the enclosing <a> (None without)  *)
(* and the data-rowkey of an <li> at most four levels up (None without).   *)
(***************************************************************************)
UpperSym(c) ==
    CASE c = "Gesellschafterliste" -> "GESELLSCHAFTERLISTE"
      [] c = "Urkunden" -> "URKUNDEN"
      [] c = "Sonstige" -> "SONSTIGE"
      [] OTHER -> c

ShareholderLower == {"gesellschafterliste"}

ShareholderUpper == {"GESELLSCHAFTERLISTE"}

LowerDocSym(c) == IF c = "Gesellschafterliste" THEN "gesellschafterliste" ELSE LowerSym(c)

RECURSIVE MergeUnderscores(_)
MergeUnderscores(t) ==
    IF Len(t) < 2 THEN t
    ELSE IF t[1] = "_" /\ t[2] = "_" THEN MergeUnderscores(Tail(t))
         ELSE <<t[1]>> \o MergeUnderscores(Tail(t))

StripUnderscores(t) ==
    LET keep == {i \in 1..Len(t) : t[i] # "_"}
    IN IF keep = {} THEN <<>>
       ELSE SubSeq(t, Min(keep), CHOOSE m \in keep : \A k \in keep : k <= m)

normalize_type(type_string) ==
    IF ~Truthy(type_string) THEN None
    ELSE StripUnderscores(MergeUnderscores(
             [i \in 1..Len(type_string) |->
                 IF type_string[i] \in {" ", "/"} THEN "_" ELSE UpperSym(type_string[i])]))

\* Lines 346-378: the record of one dated text node.
DocOfNode(n, default_type) ==
    LET pdf_link == IF n.href = <<"#">> THEN n.aid ELSE n.href
    IN [id |-> IF Truthy(pdf_link) THEN pdf_link ELSE n.name,
        pdf |-> pdf_link,
        rowkey |-> IF ~Truthy(pdf_link) THEN n.rowkey ELSE None,
        date |-> n.date,
        name |-> n.name,
        typeString |-> default_type,
        type |-> normalize_type(default_type),
        pdf_base64 |-> None]

RECURSIVE DocsOfNodes(_, _)
DocsOfNodes(nodes, default_type) ==
    IF nodes = <<>> THEN <<>>
    ELSE IF nodes[1].date = 0 THEN DocsOfNodes(Tail(nodes), default_type)
         ELSE <<DocOfNode(nodes[1], default_type)>> \o DocsOfNodes(Tail(nodes), default_type)

DateStr(d) == IF d = 1 THEN <<"01.01.2020">> ELSE IF d = 2 THEN <<"02.01.2020">> ELSE <<"03.01.2020">>

\* Lines 381-422: a table row is [ncells, date, href]: the day of the first
\* date found in a cell (0 without a valid one), the first link's href.
RECURSIVE DocsOfTable(_, _)
DocsOfTable(rows, default_type) ==
    IF rows = <<>> THEN <<>>
    ELSE IF rows[1].ncells < 3 \/ rows[1].date = 0 \/ ~Truthy(rows[1].href)
         THEN DocsOfTable(Tail(rows), default_type)
         ELSE <<[id |-> rows[1].href, pdf |-> rows[1].href, rowkey |-> None,
                 date |-> rows[1].date, name |-> DateStr(rows[1].date),
                 typeString |-> default_type, type |-> normalize_type(default_type),
                 pdf_base64 |-> None]>>
              \o DocsOfTable(Tail(rows), default_type)

DocKey(d) == <<d.date, d.id>>

\* unique_docs with the first value of a key kept instead of the last.
RECURSIVE DedupeKeepFirst(_)
DedupeKeepFirst(ds) ==
    IF ds = <<>> THEN <<>>
    ELSE LET OtherKey(d) == DocKey(d) # DocKey(ds[1])
         IN <<ds[1]>> \o DedupeKeepFirst(SelectSeq(Tail(ds), OtherKey))

\* unique_docs: a dict keeps the place of a key's first insertion and the
\* value of its last.
RECURSIVE Dedupe(_)
Dedupe(ds) ==
    IF ds = <<>> THEN <<>>
    ELSE LET same == {i \in 1..Len(ds) : DocKey(ds[i]) = DocKey(ds[1])}
             last == CHOOSE m \in same : \A k \in same : k <= m
             OtherKey(d) == DocKey(d) # DocKey(ds[1])
         IN <<ds[last]>> \o Dedupe(SelectSeq(Tail(ds), OtherKey))

\* sorted(..., key=date, reverse=True): stable, equal dates keep their order.
RECURSIVE SortByDateDesc(_)
SortByDateDesc(ds) ==
    IF ds = <<>> THEN <<>>
    ELSE LET newest == CHOOSE m \in {d.date : d \in {ds[i] : i \in 1..Len(ds)}} :
                           \A i \in 1..Len(ds) : ds[i].date <= m
             IsNewest(d) == d.date = newest
             IsOlder(d) == d.date # newest
         IN SelectSeq(ds, IsNewest) \o SortByDateDesc(SelectSeq(ds, IsOlder))

\* html.lower(), word by word.
LowerHtmlSym(c) ==
    CASE c \in {"Session", "SESSION"} -> "session"
      [] c \in {"Has", "HAS"} -> "has"
      [] c \in {"Expired", "EXPIRED"} -> "expired"
      [] c \in {"Sitzung", "SITZUNG"} -> "sitzung"
      [] c \in {"Abgelaufen", "ABGELAUFEN"} -> "abgelaufen"
      [] OTHER -> c

\* The check without lower(): only the markers written in lower case.
HasExpiredMarkerAsWritten(text) ==
    \/ Contains(text, <<"session", "has", "expired">>)
    \/ Contains(text, <<"sitzung", "abgelaufen">>)

\* Lines 293: "session has expired" in html.lower() or "sitzung abgelaufen"
\* in html.lower()
HasExpiredMarker(text) ==
    LET lower == [i \in 1..Len(text) |-> LowerHtmlSym(text[i])]
    IN \/ Contains(lower, <<"session", "has", "expired">>)
       \/ Contains(lower, <<"sitzung", "abgelaufen">>)

parse_documents(html, default_type) ==
    IF HasExpiredMarker(html.text) THEN <<>>
    ELSE LET primary == DocsOfNodes(html.nodes, default_type)
             found == IF primary # <<>> THEN primary ELSE DocsOfTable(html.table, default_type)
         IN SortByDateDesc(Dedupe(found))

\* extract_viewstate_from_partial_response: the token of the response's
\* ViewState update, None (NoViewState) without one.
extract_viewstate_from_partial_response(xml_content) == xml_content.token

\* The loop of lines 157-163 without its two tests: every <li> is kept.
EveryNode(li) == li

\* The nodes of the root fragment that get_documents expands (lines 157-163).
FolderNodes(li) ==
    LET IsFolder(n) == n.nodetype = "list" /\ Truthy(n.rowkey)
    IN SelectSeq(li, IsFolder)

(***************************************************************************)
(* What the remote system may answer during a document fetch.              *)
(***************************************************************************)
TextNode(date, name, href, aid, rowkey) ==
    [date |-> date, name |-> name, href |-> href, aid |-> aid, rowkey |-> rowkey]

NodeUrl1 == TextNode(1, <<"Gesellschafterliste">>, <<"http", ":", "a">>, None, None)

NodeKey2 == TextNode(2, <<"Gesellschafterliste">>, None, None, <<"0_0_1_0">>)

NodeJsf2 == TextNode(2, <<"Satzung">>, <<"#">>, <<"form", ":", "j1">>, None)

Content(text, nodes, table) == [text |-> text, nodes |-> nodes, table |-> table]

NoContent == Content(<<>>, <<>>, <<>>)

DocContents ==
    {NoContent,
     Content(<<>>, <<NodeUrl1>>, <<>>),
     Content(<<>>, <<NodeKey2>>, <<>>),
     Content(<<>>, <<NodeUrl1, NodeJsf2>>, <<>>),
     Content(<<"Session", "has", "expired">>, <<NodeUrl1>>, <<>>),
     Content(<<>>, <<>>, <<[ncells |-> 3, date |-> 2, href |-> <<"http", ":", "t">>]>>)}

TreeNode(nodetype, rowkey, label) == [nodetype |-> nodetype, rowkey |-> rowkey, label |-> label]

FolderA == TreeNode("list", <<"0_0_0">>, <<"Gesellschafterliste">>)

FolderB == TreeNode("list", <<"0_0_1">>, <<"Sonstige", " ", "Urkunden">>)

TreeLists ==
    {<<>>, <<FolderA>>, <<FolderA, FolderB>>,
     <<TreeNode("leaf", <<"0_0_2">>, <<"Satzung">>), FolderA>>,
     <<TreeNode("list", None, <<"Sonstige">>), FolderB>>}

\* A partial response: an empty body, or a ViewState update (NoViewState
\* without one), the <li> nodes and the content of the tree fragment.
EmptyXml == [empty |-> TRUE, token |-> NoViewState, li |-> <<>>, content |-> NoContent]

RootBodies(newest) ==
    {EmptyXml} \cup
    {[empty |-> FALSE, token |-> t, li |-> l, content |-> NoContent] :
        t \in {NoViewState, newest + 1}, l \in TreeLists}

NodeBodies(newest) ==
    {EmptyXml} \cup
    {[empty |-> FALSE, token |-> t, li |-> <<>>, content |-> c] :
        t \in {NoViewState, newest + 1}, c \in DocContents}

PdfBytes == <<"%PDF", "doc">>

PdfNames == {"b.pdf", "C.PDF"}

\* A zip archive: "PK", then name and content of each entry in turn.
ZipWithPdf == <<"PK", "a.txt", "text", "b.pdf", "doc">>

ZipNoPdf == <<"PK", "a.txt", "text">>

ZipCorrupt == <<"PK">>

PleaseWait == <<"<html", "Bitte warten">>

DownloadResponses ==
    {[ct |-> "application/pdf", body |-> PdfBytes],
     [ct |-> "application/zip", body |-> ZipWithPdf],
     [ct |-> "application/octet-stream", body |-> ZipNoPdf],
     [ct |-> "application/zip", body |-> ZipCorrupt],
     [ct |-> "text/html", body |-> PleaseWait]}

\* What the remote system answers when a document's URL is opened.
UrlResponses ==
    {[ct |-> "application/pdf", body |-> PdfBytes],
     [ct |-> "application/pdf", body |-> <<>>],
     [ct |-> "application/zip", body |-> ZipWithPdf],
     [ct |-> "text/html", body |-> PleaseWait]}

SelectBodies ==
    {[button |-> <<"dk_form", ":", "btn">>, links |-> <<>>],
     [button |-> None, links |-> <<>>],
     [button |-> None, links |-> <<<<"#", "x">>, <<"doc.pdf">>>>]}

(***************************************************************************)
(* get_documents, one action per request to the remote system.             *)
(***************************************************************************)
runVars == <<entry, args, cache, search, query, companies>>

\* Lines 126-141: the click on the company's DK link and the direct
\* extraction.  select_form stands before the try block.
GetDocumentsOn(contents) ==
    /\ pc = "get_documents"
    /\ current_viewstate' = NoViewState
    /\ nodes_to_expand' = <<>>
    /\ IF ~HasForm(browser, "ergebnissForm")
       THEN /\ fetch' = [NoFetch EXCEPT !.entered = TRUE, !.from = browser.cur,
                                        !.raising = "FormNotFoundError"]
            /\ pc' = "gc_attach"
            /\ UNCHANGED <<browser, net, docs>>
       ELSE /\ net' = Append(net, [kind |-> "documents", dk_id |-> target_company.dk_id])
            /\ \/ /\ browser' = Open(browser, "failed")
                  /\ fetch' = [NoFetch EXCEPT !.entered = TRUE, !.from = browser.cur,
                                              !.raising = "URLError"]
                  /\ docs' = <<>>
                  /\ pc' = "gd_finally"
               \/ \E content \in contents, page \in {"Docs", "DocsBare"} :
                     /\ browser' = Open(browser, page)
                     /\ fetch' = [NoFetch EXCEPT !.entered = TRUE, !.from = browser.cur,
                                                 !.content = content]
                     /\ docs' = parse_documents(content, None)
                     /\ pc' = IF docs' = <<>> THEN "gd_root" ELSE "gd_shareholders"
    /\ UNCHANGED <<runVars, target_company, exc>>

GetDocuments == GetDocumentsOn(DocContents)

\* Lines 216-221: the token an expansion request carries.  The form holds
\* the token of the documents page; a viewstate that is not None replaces
\* it unless set_value raises, which the code catches.
TokenSent(viewstate, set_ok) ==
    IF viewstate # NoViewState /\ set_ok THEN viewstate ELSE PageToken

\* expand_documents_tree: every outcome of one call.  xml is what it
\* returns (EmptyXml also for None), reqs the request it sent, if any.
expand_documents_tree(b, node_id, viewstate, bodies) ==
    LET req(set_ok) ==
            [kind |-> "expand", node |-> node_id, viewstate |-> TokenSent(viewstate, set_ok)]
        sets == IF viewstate # NoViewState THEN BOOLEAN ELSE {TRUE}
    IN IF ~HasForm(b, "dk_form")
       THEN {[exc |-> "none", xml |-> EmptyXml, browser |-> b, reqs |-> <<>>]}
       ELSE {[exc |-> "URLError", xml |-> EmptyXml, browser |-> Open(b, "failed"),
              reqs |-> <<req(set_ok)>>] : set_ok \in sets}
            \cup
            {[exc |-> "none", xml |-> x, browser |-> Back(Open(b, "Partial")),
              reqs |-> <<req(set_ok)>>] : x \in bodies, set_ok \in sets}

Newest(f, xml) ==
    IF xml.token # NoViewState THEN [f EXCEPT !.newest = xml.token] ELSE f

\* Lines 145-163: the root node.
ExpandRoot ==
    /\ pc = "gd_root"
    /\ \E o \in expand_documents_tree(browser, <<"0_0">>, current_viewstate,
                                      RootBodies(fetch.newest)) :
          /\ browser' = o.browser
          /\ net' = net \o o.reqs
          /\ IF o.exc # "none" \/ o.xml.empty
             THEN /\ pc' = "gd_shareholders"
                  /\ UNCHANGED <<current_viewstate, nodes_to_expand, fetch>>
             ELSE /\ current_viewstate' = extract_viewstate_from_partial_response(o.xml)
                  /\ nodes_to_expand' = FolderNodes(o.xml.li)
                  /\ fetch' = [Newest(fetch, o.xml) EXCEPT !.tree = o.xml.li]
                  /\ pc' = IF nodes_to_expand' = <<>> THEN "gd_shareholders" ELSE "gd_nodes"
    /\ UNCHANGED <<runVars, target_company, exc, docs>>

\* Lines 166-171: one turn of the loop over nodes_to_expand.
ExpandNode ==
    /\ pc = "gd_nodes"
    /\ \E o \in expand_documents_tree(browser, nodes_to_expand[1].rowkey, current_viewstate,
                                      NodeBodies(fetch.newest)) :
          /\ browser' = o.browser
          /\ net' = net \o o.reqs
          /\ IF o.exc # "none"
             THEN /\ pc' = "gd_shareholders"
                  /\ UNCHANGED <<current_viewstate, nodes_to_expand, fetch, docs>>
             ELSE /\ nodes_to_expand' = Tail(nodes_to_expand)
                  /\ pc' = IF nodes_to_expand' = <<>> THEN "gd_shareholders" ELSE "gd_nodes"
                  /\ IF o.xml.empty
                     THEN UNCHANGED <<current_viewstate, fetch, docs>>
                     ELSE /\ current_viewstate' = extract_viewstate_from_partial_response(o.xml)
                          /\ fetch' = Newest(fetch, o.xml)
                          /\ docs' = docs \o parse_documents(o.xml.content,
                                                             nodes_to_expand[1].label)
    /\ UNCHANGED <<runVars, target_company, exc>>

(***************************************************************************)
(* The shareholder list: lines 177-193 of get_documents, download_pdf and  *)
(* download_pdf_via_rowkey.                                                *)
(***************************************************************************)
IsShareholderName(name) == \E i \in 1..Len(name) : LowerDocSym(name[i]) \in ShareholderLower

IsShareholderType(type) ==
    Truthy(type) /\ \E i \in 1..Len(type) : type[i] \in ShareholderUpper

\* s_docs[0]: the index in docs of the first shareholder list, 0 without.
LatestShareholderDoc(ds) ==
    LET by_name == {i \in 1..Len(ds) : Truthy(ds[i].name) /\ IsShareholderName(ds[i].name)}
        by_type == {i \in 1..Len(ds) : IsShareholderType(ds[i].type)}
    IN IF by_name # {} THEN Min(by_name)
       ELSE IF by_type # {} THEN Min(by_type) ELSE 0

\* download_pdf's guard: not url or url.startswith('#') or (':' in url and
\* not url.startswith('http'))
UrlRefused(url) ==
    \/ ~Truthy(url)
    \/ url[1] = "#"
    \/ (\E i \in 1..Len(url) : url[i] = ":") /\ url[1] # "http"

b64encode(content) == <<"base64">> \o content

\* Lines 192-193, then the way to the finally block.
Embed(pdf_content) ==
    /\ docs' = IF Truthy(pdf_content)
               THEN [docs EXCEPT ![fetch.latest].pdf_base64 = b64encode(pdf_content)]
               ELSE docs
    /\ pc' = "gd_finally"

Shareholders ==
    /\ pc = "gd_shareholders"
    /\ LET latest == IF args.withShareholdersLatest /\ docs # <<>>
                     THEN LatestShareholderDoc(docs) ELSE 0
       IN IF latest = 0
          THEN /\ pc' = "gd_finally"
               /\ UNCHANGED <<browser, net, docs, fetch>>
          ELSE IF UrlRefused(docs[latest].pdf)
          THEN /\ fetch' = [fetch EXCEPT !.latest = latest]
               /\ pc' = IF Truthy(docs[latest].rowkey) THEN "gd_rowkey" ELSE "gd_finally"
               /\ UNCHANGED <<browser, net, docs>>
          ELSE /\ net' = Append(net, [kind |-> "download", via |-> "url"])
               /\ \/ /\ browser' = Open(browser, "failed")
                     /\ fetch' = [fetch EXCEPT !.latest = latest]
                     /\ pc' = IF Truthy(docs[latest].rowkey) THEN "gd_rowkey" ELSE "gd_finally"
                     /\ UNCHANGED docs
                  \/ \E r \in UrlResponses :
                        /\ browser' = Open(browser, "File")
                        /\ fetch' = [fetch EXCEPT !.latest = latest, !.response = r]
                        /\ docs' = IF Truthy(r.body)
                                   THEN [docs EXCEPT ![latest].pdf_base64 = b64encode(r.body)]
                                   ELSE docs
                        /\ pc' = IF ~Truthy(r.body) /\ Truthy(docs[latest].rowkey)
                                 THEN "gd_rowkey" ELSE "gd_finally"
    /\ UNCHANGED <<runVars, target_company, exc, current_viewstate, nodes_to_expand>>

\* Lines 444-475 and 545: the selection of the node, and what the response
\* offers: a download button, or links.
RowkeySelect ==
    /\ pc = "gd_rowkey"
    /\ IF ~HasForm(browser, "dk_form")
       THEN /\ Embed(None)
            /\ UNCHANGED <<browser, net, fetch>>
       ELSE /\ net' = Append(net, [kind |-> "select", rowkey |-> docs[fetch.latest].rowkey])
            /\ \/ /\ browser' = Open(browser, "failed")
                  /\ Embed(None)
                  /\ UNCHANGED fetch
               \/ \E x \in SelectBodies :
                     /\ browser' = Back(Open(browser, "Partial"))
                     /\ fetch' = [fetch EXCEPT !.button = x.button, !.links = x.links]
                     /\ pc' = IF x.button # None THEN "gd_reload" ELSE "gd_links"
                     /\ UNCHANGED docs
    /\ UNCHANGED <<runVars, target_company, exc, current_viewstate, nodes_to_expand>>

\* Lines 481-483: the reload of the documents page.
Reload ==
    /\ pc = "gd_reload"
    /\ net' = Append(net, [kind |-> "reload"])
    /\ \/ /\ browser' = Open(browser, "failed")
          /\ Embed(None)
       \/ /\ browser' = Open(browser, "DocsBare")
          /\ Embed(None)
       \/ /\ browser' = Open(browser, "Docs")
          /\ pc' = "gd_download"
          /\ UNCHANGED docs
    /\ UNCHANGED <<runVars, target_company, exc, current_viewstate, nodes_to_expand, fetch>>

\* Lines 507-522: the payload of a binary response; None when the archive
\* cannot be read.
RECURSIVE FirstPdfEntry(_)
FirstPdfEntry(entries) ==
    IF Len(entries) < 2 THEN None
    ELSE IF entries[1] \in PdfNames THEN <<"%PDF", entries[2]>>
         ELSE FirstPdfEntry(SubSeq(entries, 3, Len(entries)))

Unwrap(content) ==
    IF content # <<>> /\ content[1] = "PK"
    THEN IF content = ZipCorrupt THEN None
         ELSE IF FirstPdfEntry(Tail(content)) # None THEN FirstPdfEntry(Tail(content))
              ELSE content
    ELSE content

IsBinaryType(ct) ==
    ct \in {"application/pdf", "application/octet-stream", "application/zip"}

\* Lines 500-542 on the response of the download button: what is returned
\* and whether browser.back() ran.
DownloadResult(r) ==
    IF IsBinaryType(r.ct)
    THEN IF Unwrap(r.body) = None THEN [content |-> None, back |-> FALSE]
         ELSE [content |-> Unwrap(r.body), back |-> TRUE]
    ELSE [content |-> None, back |-> TRUE]

\* Lines 485-542: the click on the download button.  The button is
\* submitted by name; when that raises (the control is missing, or the
\* request fails) the form is submitted again with a hidden control.
Download ==
    /\ pc = "gd_download"
    /\ \E found \in BOOLEAN, first \in DownloadResponses \cup {NoResponse},
          second \in DownloadResponses \cup {NoResponse} :
          LET req == [kind |-> "download", via |-> "button"]
              sent1 == found
              ok1 == sent1 /\ first # NoResponse
              b1 == IF sent1 THEN Open(browser, IF ok1 THEN "File" ELSE "failed") ELSE browser
              ok2 == ~ok1 /\ second # NoResponse
              b2 == IF ok1 THEN b1 ELSE Open(b1, IF ok2 THEN "File" ELSE "failed")
              r == IF ok1 THEN first ELSE second
          IN /\ ok1 => second = NoResponse
             /\ ~sent1 => first = NoResponse
             /\ net' = net \o (IF sent1 THEN <<req>> ELSE <<>>) \o (IF ok1 THEN <<>> ELSE <<req>>)
             /\ fetch' = [fetch EXCEPT !.response = r]
             /\ IF r = NoResponse
                THEN /\ browser' = b2
                     /\ Embed(None)
                ELSE /\ browser' = IF DownloadResult(r).back THEN Back(b2) ELSE b2
                     /\ Embed(DownloadResult(r).content)
    /\ UNCHANGED <<runVars, target_company, exc, current_viewstate, nodes_to_expand>>

LinkSkipped(link) == link[1] \in {"#", "javascript", "javax.faces.resource"}

\* Lines 547-570: one turn of the loop over the links of the response.
FollowLink ==
    /\ pc = "gd_links"
    /\ IF fetch.links = <<>>
       THEN /\ Embed(None)
            /\ UNCHANGED <<browser, net, fetch>>
       ELSE IF LinkSkipped(fetch.links[1])
       THEN /\ fetch' = [fetch EXCEPT !.links = Tail(@)]
            /\ UNCHANGED <<browser, net, docs, pc>>
       ELSE /\ net' = Append(net, [kind |-> "download", via |-> "link"])
            /\ \/ /\ browser' = Open(browser, "failed")
                  /\ fetch' = [fetch EXCEPT !.links = Tail(@), !.response = NoResponse]
                  /\ UNCHANGED <<docs, pc>>
               \/ \E r \in DownloadResponses :
                     /\ browser' = Open(browser, "File")
                     /\ fetch' = [fetch EXCEPT !.links = Tail(@), !.response = r]
                     /\ IF r.ct = "application/pdf"
                        THEN Embed(r.body)
                        ELSE UNCHANGED <<docs, pc>>
    /\ UNCHANGED <<runVars, target_company, exc, current_viewstate, nodes_to_expand>>

\* Lines 196-204: the finally block.
Finally ==
    /\ pc = "gd_finally"
    /\ browser' = IF BackRaises(browser) THEN browser ELSE Back(browser)
    /\ pc' = "gc_attach"
    /\ UNCHANGED <<runVars, target_company, exc, net, docVars>>

\* Lines 700-719 of get_company: the documents are attached unless
\* get_documents raised, and get_company returns.
FirstPayload(ds) ==
    LET with == {i \in 1..Len(ds) : Truthy(ds[i].pdf_base64)}
    IN IF with = {} THEN None ELSE ds[Min(with)].pdf_base64

GetCompanyAttach ==
    /\ pc = "gc_attach"
    /\ target_company' =
          IF fetch.raising # "none" THEN target_company
          ELSE [target_company EXCEPT
                   !.documents = docs,
                   !.documentShareholdersLatest =
                       IF args.withShareholdersLatest THEN FirstPayload(docs) ELSE @]
    /\ pc' = "done"
    /\ UNCHANGED <<runVars, browser, net, exc, docVars>>

Next ==
    \/ MainValidate
    \/ OpenStartpage
    \/ MainSearch
    \/ GetCompanySearch
    \/ GetCompanyMatch
    \/ GetDocuments
    \/ ExpandRoot
    \/ ExpandNode
    \/ Shareholders
    \/ RowkeySelect
    \/ Reload
    \/ Download
    \/ FollowLink
    \/ Finally
    \/ GetCompanyAttach

Spec == Init /\ [][Next]_vars

(***************************************************************************)
(* The matcher on its own: get_company(register_num, company_name) called  *)
(* on an instance whose cache holds the page of its search, at the point   *)
(* where search_company has returned the companies of that page.           *)
(***************************************************************************)
MaxRows == 3

RowExShort == Row(CourtHRB1, <<"Ex">>, <<"Hessen">>, None)

RowPrefix == Row(<<"Amtsgericht", " ", "Frankfurt", " ", "HRB", " ", "1", "2">>,
                 <<"Other", " ", "GmbH">>, <<"Hessen">>, None)

RowOutsider == Row(<<"Amtsgericht", " ", "Kassel", " ", "HRB", " ", "2">>,
                   <<"Ex", " ", "GmbH">>, <<"Hessen">>, None)

\* A register number written without a space, and a company whose name is
\* part of the queried name, registered under another number.
RowNoSpace == Row(<<"Amtsgericht", " ", "Frankfurt", " ", "HRB", "1">>,
                  <<"Other", " ", "GmbH">>, <<"Hessen">>, None)

RowShortOutsider == Row(<<"Amtsgericht", " ", "Kassel", " ", "HRB", " ", "2">>,
                        <<"Ex">>, <<"Hessen">>, None)

MatchRows ==
    {RowEx, RowOther, RowExShort, RowPrefix, RowOutsider, RowNoReg, RowNoSpace,
     RowShortOutsider}

MatchPages ==
    {[grid |-> TRUE, rows |-> r] : r \in UNION {[1..n -> MatchRows] : n \in 0..MaxRows}}

MatchQueries ==
    [register_num : {<<"HRB", " ", "1">>}, company_name : {None, <<"Ex", " ", "GmbH">>}]

InitMatch ==
    /\ entry = "api"
    /\ pc = "gc_match"
    /\ query \in MatchQueries
    /\ args = GetCompanyArgs([schlagwoerter |-> None,
                              register_number |-> query.register_num,
                              company_name |-> query.company_name,
                              force |-> FALSE,
                              withShareholdersLatest |-> FALSE,
                              schlagwortOptionen |-> "all"],
                             SearchTerm(query.register_num, query.company_name))
    /\ \E page \in MatchPages : cache = (args.schlagwoerter :> page)
    /\ browser = Open(NewBrowser, "Start")
    /\ net = <<[kind |-> "startpage"]>>
    /\ \E o \in search_company(args, cache, browser, {}) :
          /\ search = SearchRecord(o, args, "get_company", cache)
          /\ companies = o.companies
    /\ target_company = NoneCompany
    /\ exc = "none"
    /\ docs = <<>>
    /\ current_viewstate = NoViewState
    /\ nodes_to_expand = <<>>
    /\ fetch = NoFetch

NextMatch == GetCompanyMatch

SpecMatch == InitMatch /\ [][NextMatch]_vars

(***************************************************************************)
(* The document extractor on its own: get_documents entered for a matched  *)
(* company after a search that reached the remote system, the documents    *)
(* page drawn from every text, node list and table up to the bounds.       *)
(***************************************************************************)
MaxNodes == 3

NodeUrl1b == TextNode(1, <<"Satzung">>, <<"http", ":", "a">>, None, None)

NodeKey2b == TextNode(2, <<"Gesellschafterliste">>, None, None, <<"0_0_2_0">>)

\* The anchor of a tree node whose href names the node: href="#node42".
NodeRef3 == TextNode(3, <<"Gesellschafterliste">>, <<"#", "node42">>, <<"node42">>, None)

\* A text that matches the date pattern and is no date: 31.02.2020.
NodeNoDate == TextNode(0, <<"Liste">>, <<"http", ":", "b">>, None, None)

ParseNodes == {NodeUrl1, NodeUrl1b, NodeKey2, NodeKey2b, NodeJsf2, NodeRef3, NodeNoDate}

ParseTexts ==
    {<<>>,
     <<"Session", "expired">>,
     <<"Session", "has", "expired">>,
     <<"SESSION", "HAS", "EXPIRED">>,
     <<"Die", "Sitzung", "abgelaufen", "!">>,
     <<"sitzung", "abgelaufen">>}

ParseTables ==
    {<<>>,
     <<[ncells |-> 2, date |-> 1, href |-> <<"http", ":", "s">>],
       [ncells |-> 3, date |-> 2, href |-> <<"http", ":", "t">>],
       [ncells |-> 3, date |-> 2, href |-> <<"http", ":", "t">>]>>}

ParseContents ==
    {Content(text, nodes, table) :
        text \in ParseTexts,
        nodes \in UNION {[1..n -> ParseNodes] : n \in 0..MaxNodes},
        table \in ParseTables}

InitParse ==
    /\ entry = "cli"
    /\ pc = "get_documents"
    /\ query = [register_num |-> <<"HRB", " ", "1">>, company_name |-> <<"Ex", " ", "GmbH">>]
    /\ args = GetCompanyArgs([schlagwoerter |-> None,
                              register_number |-> query.register_num,
                              company_name |-> query.company_name,
                              force |-> FALSE,
                              withShareholdersLatest |-> FALSE,
                              schlagwortOptionen |-> "all"],
                             SearchTerm(query.register_num, query.company_name))
    /\ \E o \in search_company(args, <<>>, Open(NewBrowser, "Start"),
                               {[grid |-> TRUE, rows |-> <<RowEx>>]}) :
          /\ o.exc = "none"
          /\ search = SearchRecord(o, args, "get_company", <<>>)
          /\ cache = o.cache
          /\ browser = o.browser
          /\ net = <<[kind |-> "startpage"]>> \o o.reqs
          /\ companies = o.companies
    /\ target_company = MatchCompany(companies, query.register_num, query.company_name).value
    /\ exc = "none"
    /\ docs = <<>>
    /\ current_viewstate = NoViewState
    /\ nodes_to_expand = <<>>
    /\ fetch = NoFetch

NextParse == GetDocumentsOn(ParseContents)

SpecParse == InitParse /\ [][NextParse]_vars

(***************************************************************************)
(* The result extractor on its own: search_company called on an instance   *)
(* whose cache holds a results page for the keywords, the rows of the page *)
(* drawn from every court text and state of the pools.                     *)
(***************************************************************************)
MaxSuffixRows == 2

\* The register parts of the court texts: with and without the letter the
\* rule appends, with a second letter, without a space after the type.
SuffixRegisters ==
    {<<"HRB", " ", "1">>,
     <<"HRB", " ", "1", " ", "B">>,
     <<"HRB", " ", "1", " ", " ", "B">>,
     <<"HRB", " ", "1", " ", "H", "B">>,
     <<"HRB", " ", "1", " ", "B", " ", "B">>,
     <<"HRB", "1">>,
     <<"HRA", " ", "2", " ", "B">>,
     <<"VR", " ", "1", "2">>}

SuffixStates == {<<"Berlin">>, <<"Bremen">>, <<"Hessen">>}

SuffixRows ==
    {Row(<<"Amtsgericht", " ", "X", " ">> \o reg, <<"Ex", " ", "GmbH">>, state, None) :
        reg \in SuffixRegisters, state \in SuffixStates}

SuffixPages ==
    {[grid |-> TRUE, rows |-> r] : r \in UNION {[1..n -> SuffixRows] : n \in 1..MaxSuffixRows}}

InitSuffix ==
    /\ entry = "api"
    /\ pc = "opened"
    /\ args = [schlagwoerter |-> <<"Ex">>,
               register_number |-> None,
               company_name |-> None,
               force |-> FALSE,
               withShareholdersLatest |-> FALSE,
               schlagwortOptionen |-> "all"]
    /\ \E page \in SuffixPages : cache = (args.schlagwoerter :> page)
    /\ browser = Open(NewBrowser, "Start")
    /\ net = <<[kind |-> "startpage"]>>
    /\ search = NoSearch
    /\ query = NoQuery
    /\ companies = <<>>
    /\ target_company = NoneCompany
    /\ exc = "none"
    /\ docs = <<>>
    /\ current_viewstate = NoViewState
    /\ nodes_to_expand = <<>>
    /\ fetch = NoFetch

NextSuffix == MainSearch

SpecSuffix == InitSuffix /\ [][NextSuffix]_vars

(***************************************************************************)
(* The cache across runs: the program started again and again on the same  *)
(* cache directory, which is empty before the first run.  search keeps the *)
(* record of the last call of search_company, also of an earlier run.      *)
(***************************************************************************)
CacheArgs ==
    [schlagwoerter : {<<"Ex">>, <<"Other">>},
     register_number : {None, <<"HRB", " ", "1">>},
     company_name : {None},
     force : BOOLEAN,
     withShareholdersLatest : {FALSE},
     schlagwortOptionen : {"all", "exact"}]

\* What the remote system answers in these runs.
CachePages ==
    {[grid |-> TRUE, rows |-> <<RowEx>>],
     [grid |-> TRUE, rows |-> <<RowOther, RowEx>>]}

InitCache ==
    /\ entry \in {"cli", "api"}
    /\ pc = IF entry = "cli" THEN "main" ELSE "construct"
    /\ args \in CacheArgs
    /\ cache = <<>>
    /\ InitCommon

\* The next run: a new process with its own command line; only the files
\* of the cache directory remain.
NewRun ==
    /\ pc \in {"done", "crashed", "exit1"}
    /\ entry' \in {"cli", "api"}
    /\ pc' = IF entry' = "cli" THEN "main" ELSE "construct"
    /\ args' \in CacheArgs
    /\ browser' = NoBrowser
    /\ net' = <<>>
    /\ companies' = <<>>
    /\ exc' = "none"
    /\ UNCHANGED <<cache, search, query, target_company, docVars>>

NextCache ==
    \/ MainValidate
    \/ OpenStartpage
    \/ MainSearchOn(CachePages)
    \/ NewRun

SpecCache == InitCache /\ [][NextCache]_vars

(***************************************************************************)
(* Properties.                                                             *)
(***************************************************************************)
SearchKey == companyname2cachename(search.args.schlagwoerter)

\* The positions in search.reqs of the submitted extended-search forms.
SearchReqs == {i \in 1..Len(search.reqs) : search.reqs[i].kind = "search"}

Parseable(register_number) ==
    Truthy(register_number) /\ ArgRegisterMatch(register_number).found

\* C1: when search_company runs without force-refresh and the cache holds
\* an entry for the key, it sends nothing to the remote system, leaves the
\* session and the cache as they are, and parses the companies from the
\* cached page.
C1_CacheHitWithoutRemote ==
    [][(/\ ~search.called /\ search'.called
        /\ search'.args.schlagwoerter # None
        /\ ~search'.args.force
        /\ companyname2cachename(search'.args.schlagwoerter) \in DOMAIN cache)
       => LET cached == ReadPage(cache[companyname2cachename(search'.args.schlagwoerter)])
              parsed == get_companies_in_searchresults(cached)
          IN /\ net' = net
             /\ browser' = browser
             /\ cache' = cache
             /\ search'.reqs = <<>>
             /\ search'.html = cached
             /\ search'.exc = parsed.exc
             /\ companies' = parsed.value]_vars

\* A search answered from the cache that returned companies.
C1_Witness ==
    /\ search.called
    /\ ~search.args.force
    /\ search.args.schlagwoerter # None
    /\ SearchKey \in DOMAIN search.before
    /\ search.hit
    /\ search.exc = "none"
    /\ search.companies # <<>>
    /\ search.reqs = <<>>

\* C2: whenever search_company contacted the remote system and returned,
\* the cache entry of the key holds exactly the page received, and a
\* non-forced search with the same key that follows at once yields the
\* same companies without contacting the remote system.
C2_CacheRoundTrip ==
    (search.called /\ search.reqs # <<>> /\ search.exc = "none")
    => /\ SearchKey \in DOMAIN cache
       /\ cache[SearchKey] = search.html
       /\ \A o \in search_company([search.args EXCEPT !.force = FALSE], cache, browser,
                                  SearchPages) :
             /\ o.reqs = <<>>
             /\ o.exc = "none"
             /\ o.companies = search.companies

\* The register number the lookup was started with.
StartedWith ==
    IF search.by = "get_company" THEN query.register_num ELSE search.args.register_number

\* C3 as stated: every lookup started with a parseable register number
\* submits a search that fills the register-type and register-number
\* fields and leaves the keyword field empty.
C3_RegisterTakesPrecedence ==
    (search.called /\ Parseable(StartedWith))
    => \A i \in SearchReqs :
          /\ search.reqs[i].registerArt = ArgRegisterMatch(StartedWith).reg_type
          /\ search.reqs[i].registerNummer = ArgRegisterMatch(StartedWith).reg_num
          /\ search.reqs[i].schlagwoerter = <<>>

\* C3, amended: a lookup through get_company submits its search term in the
\* keyword field and sets no register field, whatever register number it
\* was started with; a direct search_company whose args hold a parseable
\* register number fills both register fields and empties the keyword
\* field, or, when an assignment raised, leaves the register number unset
\* and fills the keyword field with the keywords; without a parseable
\* register number only the keyword field is filled.
C3_RegisterFieldsOnlyOnDirectSearch ==
    search.called
    => \A i \in SearchReqs :
          LET f == search.reqs[i]
              a == search.args
          IN IF search.by = "get_company"
             THEN /\ f.registerArt = None
                  /\ f.registerNummer = None
                  /\ f.schlagwoerter = SearchTerm(query.register_num, query.company_name)
             ELSE IF Parseable(a.register_number)
             THEN \/ /\ f.registerArt = ArgRegisterMatch(a.register_number).reg_type
                     /\ f.registerNummer = ArgRegisterMatch(a.register_number).reg_num
                     /\ f.schlagwoerter = <<>>
                  \/ /\ f.registerNummer = None
                     /\ f.schlagwoerter = a.schlagwoerter
             ELSE /\ f.registerArt = None
                  /\ f.registerNummer = None
                  /\ f.schlagwoerter = a.schlagwoerter

\* A lookup started with a parseable register number through get_company
\* whose search was submitted.
C3_Witness ==
    /\ search.called
    /\ search.by = "get_company"
    /\ Parseable(query.register_num)
    /\ SearchReqs # {}

\* C4: a command line with a register number and no company name, or with
\* neither keywords nor a register number, makes the run exit as a usage
\* error: it goes from the checks straight to the exit, with no browser
\* constructed and no request sent.
C4_UsageErrorBeforeNetwork ==
    (/\ entry = "cli"
     /\ \/ Truthy(args.register_number) /\ ~Truthy(args.company_name)
        \/ ~Truthy(args.schlagwoerter) /\ ~Truthy(args.register_number))
    => /\ pc = "exit1" \/ (pc = "main" /\ ENABLED MainValidate)
       /\ browser = NoBrowser
       /\ net = <<>>

\* A run given a register number without a company name that has exited.
C4_Witness ==
    /\ entry = "cli"
    /\ pc = "exit1"
    /\ Truthy(args.register_number)
    /\ ~Truthy(args.company_name)

\* The positions of the companies whose register number equals the
\* queried one exactly.
ExactIdx ==
    {i \in 1..Len(companies) : companies[i].register_num = query.register_num}

\* Those among them whose name matches the supplied company name.
NamedIdx ==
    {i \in ExactIdx : NameSimilar(companies[i].name, query.company_name)}

\* The matcher has run on the companies of a search by get_company.
Matched == search.called /\ search.by = "get_company" /\ search.exc = "none"
           /\ pc \notin {"opened", "gc_match"}

\* C5: with no company name supplied and exactly one company of the result
\* set carrying exactly the queried register number, the matcher returns
\* that company, whatever else the result set holds and in whatever order.
C5_ExactRegisterMatchReturned ==
    (Matched /\ ~Truthy(query.company_name) /\ Cardinality(ExactIdx) = 1)
    => /\ exc = "none"
       /\ \A i \in ExactIdx : target_company = companies[i]

\* C6 as stated: with two or more companies of the result set carrying the
\* queried register number and a company name that matches exactly one of
\* them, that one is returned.
C6_NameMatchAmongSharers ==
    (/\ Matched
     /\ Truthy(query.company_name)
     /\ Cardinality(ExactIdx) >= 2
     /\ Cardinality(NamedIdx) = 1)
    => /\ exc = "none"
       /\ \A i \in NamedIdx : target_company = companies[i]

\* C6, amended: when every company of the result set carries the queried
\* register number, there are two or more of them, and the company name
\* matches exactly one, that one is returned, at whatever position it is.
C6_NameMatchWhenAllShare ==
    (/\ Matched
     /\ Truthy(query.company_name)
     /\ ExactIdx = DOMAIN companies
     /\ Cardinality(ExactIdx) >= 2
     /\ Cardinality(NamedIdx) = 1)
    => /\ exc = "none"
       /\ \A i \in NamedIdx : target_company = companies[i]

\* Two or more companies that all carry the queried register number, the
\* name matching only one that is not the first, and that one returned.
C6_Witness ==
    /\ Matched
    /\ Truthy(query.company_name)
    /\ ExactIdx = DOMAIN companies
    /\ Cardinality(ExactIdx) >= 2
    /\ Cardinality(NamedIdx) = 1
    /\ 1 \notin NamedIdx
    /\ \A i \in NamedIdx : target_company = companies[i]

\* C7: when no company of the search results passes the register-number
\* filter, get_company returns no company, raises nothing and sends no
\* document request.
C7_NotFoundWithoutError ==
    (/\ Matched
     /\ \A i \in 1..Len(companies) :
           ~RegisterMatches(companies[i].register_num, query.register_num))
    => /\ exc = "none"
       /\ target_company = NoneCompany
       /\ \A i \in 1..Len(net) : net[i].kind # "documents"

\* C8: every expansion request carries the token of the most recent
\* response that held one, the token of the documents page before any
\* such response.
C8_LatestTokenSent ==
    [][(Len(net') > Len(net) /\ net'[Len(net')].kind = "expand")
       => net'[Len(net')].viewstate = fetch.newest]_vars

\* C9: when get_documents returns, on whatever path, the browser is on the
\* search-results page it was on when get_documents was entered.
C9_BackOnResultsPage ==
    (pc = "gc_attach" /\ fetch.entered /\ fetch.from = "Results")
    => browser.cur = "Results"

\* C10: the list get_documents returns is non-increasing by date.
C10_ReturnedDocsSorted ==
    (pc = "gc_attach" /\ fetch.entered /\ fetch.raising = "none")
    => \A i, j \in 1..Len(docs) : i < j => docs[i].date >= docs[j].date

\* The documents page has been received and parsed by get_documents.
Parsed == fetch.entered /\ fetch.raising = "none" /\ pc \in {"gd_root", "gd_shareholders"}

\* The records one extraction collects before unique_docs, in the order of
\* their insertion.
Extracted ==
    LET primary == DocsOfNodes(fetch.content.nodes, None)
    IN IF primary # <<>> THEN primary ELSE DocsOfTable(fetch.content.table, None)

\* The positions in Extracted of the records inserted last under their key.
LastOfKey ==
    {k \in 1..Len(Extracted) :
        \A l \in (k + 1)..Len(Extracted) : DocKey(Extracted[l]) # DocKey(Extracted[k])}

\* The texts of ParseTexts that hold a session-expired marker, German or
\* English, in any letter case.
ExpiredTexts ==
    {<<"Session", "has", "expired">>,
     <<"SESSION", "HAS", "EXPIRED">>,
     <<"Die", "Sitzung", "abgelaufen", "!">>,
     <<"sitzung", "abgelaufen">>}

\* C11: in the output of one extraction no two records share (date, id),
\* and of the extracted records that share a key exactly the one inserted
\* last is in the output.
C11_DedupeKeepsLast ==
    (Parsed /\ fetch.content.text \notin ExpiredTexts)
    => /\ \A i, j \in 1..Len(docs) : DocKey(docs[i]) = DocKey(docs[j]) => i = j
       /\ {docs[i] : i \in 1..Len(docs)} = {Extracted[k] : k \in LastOfKey}

\* Two extracted records with one key and different fields, the later of
\* them in the output.
C11_Witness ==
    /\ Parsed
    /\ fetch.content.text \notin ExpiredTexts
    /\ \E k, l \in 1..Len(Extracted) :
          /\ k < l
          /\ l \in LastOfKey
          /\ DocKey(Extracted[k]) = DocKey(Extracted[l])
          /\ Extracted[k] # Extracted[l]
          /\ \E i \in 1..Len(docs) : docs[i] = Extracted[l]

\* C12: a documents response that holds a session-expired marker yields an
\* empty document list, whatever dated texts, links and tables it holds.
C12_ExpiredYieldsNothing ==
    (Parsed /\ fetch.content.text \in ExpiredTexts) => docs = <<>>

\* A response with a marker not written in lower case, dated texts and a
\* table, parsed to the empty list.
C12_Witness ==
    /\ Parsed
    /\ fetch.content.text = <<"SESSION", "HAS", "EXPIRED">>
    /\ Extracted # <<>>
    /\ fetch.content.table # <<>>
    /\ docs = <<>>

\* C19: a dated text inside an anchor whose href is a placeholder (it
\* begins with '#') yields a record with the text's date whose download
\* reference is the anchor's id.
C19_PlaceholderReplacedById ==
    (Parsed /\ fetch.content.text \notin ExpiredTexts)
    => \A k \in 1..Len(fetch.content.nodes) :
          LET n == fetch.content.nodes[k]
          IN (n.date # 0 /\ Truthy(n.href) /\ n.href[1] = "#" /\ Truthy(n.aid))
             => \E i \in 1..Len(docs) : docs[i].date = n.date /\ docs[i].pdf = n.aid

\* The document whose binary content get_documents tried to retrieve.
Retrieved == fetch.entered /\ fetch.latest # 0 /\ pc \in {"gd_finally", "gc_attach"}

\* The positions of the documents that carry an embedded payload.
Payloads == {i \in 1..Len(docs) : Truthy(docs[i].pdf_base64)}

IsArchive(body) == Truthy(body) /\ body[1] = "PK"

\* C13: when the payload received is a compressed archive, the result is
\* the content of its first .pdf entry; without such an entry, or when the
\* archive cannot be unpacked, there is no result, never the archive.
C13_ArchiveUnwrapped ==
    (Retrieved /\ IsArchive(fetch.response.body))
    => LET body == fetch.response.body
           entry1 == IF body = ZipCorrupt THEN None ELSE FirstPdfEntry(Tail(body))
       IN docs[fetch.latest].pdf_base64 =
              IF entry1 = None THEN None ELSE b64encode(entry1)

\* C14: for one document at most one request for its binary content is
\* sent.
C14_OneAttempt ==
    Cardinality({i \in 1..Len(net) : net[i].kind = "download"}) <= 1

\* C15: a retrieval that fails (the last request raised, or was answered
\* with a page instead of a document) embeds nothing, and no retrieval
\* makes get_documents raise.
C15_FailureYieldsNothing ==
    Retrieved
    => /\ fetch.raising = "none"
       /\ (browser.cur = "failed" \/ fetch.response.ct = "text/html")
          => docs[fetch.latest].pdf_base64 = None

\* The search parsed a page: the one received or the cached one.
PageParsed == search.called /\ search.exc \in {"none", "AttributeError", "IndexError"}

\* C16: a search response without a results grid yields an empty company
\* list and does not end the run.
C16_NoGridNoResults ==
    (PageParsed /\ ~search.html.grid)
    => /\ search.exc = "none"
       /\ search.companies = <<>>
       /\ pc # "crashed"

\* C17: a results page whose grid holds no row with a row-index marker
\* yields an empty company list and no error, and only rows with the marker
\* yield a record.
C17_OnlyMarkedRows ==
    (PageParsed /\ search.html.grid)
    => LET marked == {i \in 1..Len(search.html.rows) : search.html.rows[i].ri}
       IN /\ marked = {} => (search.exc = "none" /\ search.companies = <<>>)
          /\ search.exc = "none" => Len(search.companies) = Cardinality(marked)

\* A page whose grid holds only a row without the marker, parsed to the
\* empty list.
C17_Witness ==
    /\ PageParsed
    /\ search.html.grid
    /\ search.html.rows # <<>>
    /\ \A i \in 1..Len(search.html.rows) : ~search.html.rows[i].ri
    /\ search.exc = "none"
    /\ search.companies = <<>>

\* C18: a data row with fewer cells than parse_result reads is skipped:
\* the extraction returns the records of the other rows.
C18_ShortRowSkipped ==
    (PageParsed /\ search.html.grid)
    => LET Complete(r) == ~r.ri \/ Len(r.cells) >= MinCells
       IN /\ search.exc = "none"
          /\ search.companies = ParseRows(SelectSeq(search.html.rows, Complete))

\* The positions of the shareholder lists among the documents: the ones
\* named so, and the ones typed so when none is named so.
ShareholderIdx ==
    LET named == {i \in 1..Len(docs) :
                     Truthy(docs[i].name) /\ IsShareholderName(docs[i].name)}
    IN IF named # {} THEN named
       ELSE {i \in 1..Len(docs) : IsShareholderType(docs[i].type)}

\* C20: with the shareholder-list flag set, at most one document carries
\* an embedded payload, and it is a shareholder list dated no earlier than
\* every other shareholder list of the documents fetched.
C20_LatestShareholderListEmbedded ==
    (pc = "gc_attach" /\ fetch.entered /\ args.withShareholdersLatest)
    => /\ Cardinality(Payloads) <= 1
       /\ \A i \in Payloads :
             /\ i \in ShareholderIdx
             /\ \A j \in ShareholderIdx : docs[i].date >= docs[j].date

\* C21: the suffix rule of parse_result is idempotent: applied to the
\* register number of a parsed company, with the company's state, it returns
\* the same register number, and no register number ends with the suffix
\* of its state and type twice.
C21_SuffixIdempotent ==
    (search.called /\ search.exc = "none")
    => \A i \in 1..Len(companies) :
          LET c == companies[i]
              suffix == suffix_map(c.state, FirstToken(c.register_num))
          IN c.register_num # None
             => /\ NormalizeSuffix(c.state, c.register_num) = c.register_num
                /\ suffix # None
                   => /\ EndsWith(c.register_num, suffix)
                      /\ ~EndsWith(c.register_num, suffix \o suffix)

\* A Berlin company parsed from a court text that already ends with the
\* letter, and one from a court text without it.
C21_Witness ==
    /\ search.called /\ search.exc = "none"
    /\ Len(companies) = 2
    /\ companies[1].state = <<"Berlin">>
    /\ companies[2].state = <<"Berlin">>
    /\ search.html.rows[1].cells[2] = <<"Amtsgericht", " ", "X", " ", "HRB", " ", "1", " ", "B">>
    /\ search.html.rows[2].cells[2] = <<"Amtsgericht", " ", "X", " ", "HRB", " ", "1">>
    /\ companies[1].register_num = <<"HRB", " ", "1", " ", "B">>
    /\ companies[2].register_num = <<"HRB", " ", "1", " ", "B">>

\* The matcher has returned on companies that all carry a register number.
MatchReturned == Matched /\ exc = "none"

\* The three tests of the register filter, each on its own.
RegExact(c) == c.register_num = query.register_num

RegNoSpaces(c) == RemoveSpaces(c.register_num) = RemoveSpaces(query.register_num)

RegPrefix(c) == StartsWith(c.register_num, query.register_num)

\* The candidates of a tiered register filter over cs: the exact matches
\* if any, else the matches without spaces if any, else the prefix matches.
TieredCandidates(cs) ==
    IF SelectSeq(cs, RegExact) # <<>> THEN SelectSeq(cs, RegExact)
    ELSE IF SelectSeq(cs, RegNoSpaces) # <<>> THEN SelectSeq(cs, RegNoSpaces)
    ELSE SelectSeq(cs, RegPrefix)

\* C22: the register filter is tiered: the company returned is one of the
\* exact matches of the name-narrowed set if there are any, else one of the
\* matches without spaces if there are any, else one of the prefix matches.
C22_TieredRegisterFilter ==
    (MatchReturned /\ target_company # NoneCompany)
    => LET cands == TieredCandidates(NameFilter(companies, query.company_name))
       IN \E i \in 1..Len(cands) : target_company = cands[i]

\* The name narrowing as three tiers, the last one containment in either
\* direction.
TieredNames(cs, company_name) ==
    LET IsExact(c) == c.name = company_name
        IsSameLower(c) == Lower(c.name) = Lower(company_name)
        EitherContains(c) == \/ Contains(Lower(c.name), Lower(company_name))
                             \/ Contains(Lower(company_name), Lower(c.name))
    IN IF SelectSeq(cs, IsExact) # <<>> THEN SelectSeq(cs, IsExact)
       ELSE IF SelectSeq(cs, IsSameLower) # <<>> THEN SelectSeq(cs, IsSameLower)
       ELSE SelectSeq(cs, EitherContains)

\* C23: with a company name supplied and some company passing a tier of
\* the name narrowing (exact, else equal without case, else containment in
\* either direction), the company returned is the one selected from the
\* register matches of the companies of that tier.
C23_TieredNameNarrowing ==
    (/\ MatchReturned
     /\ Truthy(query.company_name)
     /\ \A i \in 1..Len(companies) : companies[i].register_num # None
     /\ TieredNames(companies, query.company_name) # <<>>)
    => target_company =
           SelectTarget(RegisterFilter(TieredNames(companies, query.company_name),
                                       query.register_num),
                        query.company_name)

\* C28: a company returned by get_company carries a register number that
\* equals the queried one, equals it after removing spaces, or starts with
\* it.
C28_ReturnedMatchesRegister ==
    (Matched /\ target_company # NoneCompany)
    => \/ target_company.register_num = query.register_num
       \/ RemoveSpaces(target_company.register_num) = RemoveSpaces(query.register_num)
       \/ StartsWith(target_company.register_num, query.register_num)

\* A company name supplied, the result set holding a company registered
\* under another number before the one returned.
C28_Witness ==
    /\ Matched
    /\ Truthy(query.company_name)
    /\ target_company # NoneCompany
    /\ Len(companies) >= 2
    /\ companies[1].register_num = <<"HRB", " ", "2">>
    /\ target_company = companies[2]

\* C26: get_company leaves the request as it was at the call: the step
\* in which it searches and goes on to match changes neither the register
\* number nor the keywords of args.
C26_RequestUnchanged ==
    [][(pc = "opened" /\ pc' = "gc_match")
       => /\ args'.register_number = args.register_number
          /\ args'.schlagwoerter = args.schlagwoerter]_vars

\* C27: a search served from a cache entry that the search before it
\* stored has the same keywords, match mode and register number as that
\* search.
C27_CacheServesSameQuery ==
    [][(/\ search.called
        /\ search.exc \in {"none", "AttributeError", "IndexError"}
        /\ ~search.hit
        /\ search'.called
        /\ search'.hit
        /\ companyname2cachename(search'.args.schlagwoerter) \notin DOMAIN search.before)
       => /\ search'.args.schlagwoerter = search.args.schlagwoerter
          /\ search'.args.schlagwortOptionen = search.args.schlagwortOptionen
          /\ search'.args.register_number = search.args.register_number]_vars

\* The expansion requests sent so far, in order.
Expansions ==
    LET IsExpand(req) == req.kind = "expand" IN SelectSeq(net, IsExpand)

\* The folders of the root fragment: type marker 'list' and a row key.
Folders ==
    LET IsList(n) == n.nodetype = "list" /\ n.rowkey # None /\ n.rowkey # <<>>
    IN SelectSeq(fetch.tree, IsList)

\* C24: once the documents page received by get_documents holds a
\* session-expired marker, no expansion request is sent.
C24_ExpiredStopsExpansion ==
    (fetch.entered /\ fetch.content.text \in ExpiredTexts) => Expansions = <<>>

\* C25: no expansion request is sent when the documents page itself yields
\* a record; otherwise the first expansion is the root's, the ones after it
\* are those of the folders of the root fragment, one each and in document
\* order, all of them once the loop has ended without a failed request, and
\* every document carries the label of an expanded folder as its category.
C25_ExpansionOrder ==
    fetch.entered
    => /\ parse_documents(fetch.content, None) # <<>> => Expansions = <<>>
       /\ Expansions # <<>> => Expansions[1].node = <<"0_0">>
       /\ Len(Expansions) <= 1 + Len(Folders)
       /\ \A k \in 2..Len(Expansions) : Expansions[k].node = Folders[k - 1].rowkey
       /\ (pc = "gd_shareholders" /\ browser.cur # "failed" /\ Expansions # <<>>)
          => Len(Expansions) = 1 + Len(Folders)
       /\ Expansions # <<>>
          => \A i \in 1..Len(docs) :
                \E k \in 1..(Len(Expansions) - 1) : docs[i].typeString = Folders[k].label

\* The root fragment held a leaf before a folder; only the folder was
\* expanded and its documents were extracted.
C25_Witness ==
    /\ fetch.entered
    /\ pc = "gd_shareholders"
    /\ Len(fetch.tree) = 2
    /\ fetch.tree[1].nodetype = "leaf"
    /\ fetch.tree[2] = FolderA
    /\ Len(Expansions) = 2
    /\ docs # <<>>

\* C29: the documents that get_documents leaves after a tree expansion hold
\* no two records with the same date and id.
C29_NoDuplicatesAcrossFragments ==
    (fetch.entered /\ Expansions # <<>>)
    => \A i, j \in 1..Len(docs) : DocKey(docs[i]) = DocKey(docs[j]) => i = j

=============================================================================
